---- MODULE Spec2Model ----
(***************************************************************************)
(* Model of silo (src/src/keychain.ts and its command-line front end).     *)
(*                                                                         *)
(* A string is a sequence of pieces (TLA+ strings); concatenation is \o.   *)
(* The macOS `security` and `osascript` commands are the environment: a    *)
(* simulated protected keychain (exists / locked / password / auto-lock /  *)
(* credentials) and a default login keychain (credentials).  Every         *)
(* execFileSync call of the source is one step of the model.               *)
(***************************************************************************)
EXTENDS Naturals, Sequences, FiniteSets

(* ------------------------------------------------------------------ *)
(* Bounds and input sets                                               *)
(* ------------------------------------------------------------------ *)

\* Number of public calls (API or command line) in one behaviour.
MaxCalls == 2

SP == " "
NL == "\n"
Whitespace == {SP, NL}

Service == <<"app">>

AcctProd  == <<"db-", "production">>
AcctLive  == <<"live-", "db">>
AcctOdd   == <<"live-", "could not be found">>
Accounts  == {AcctProd, AcctLive, AcctOdd}

Values == {<<"v">>, <<SP, "w">>}

\* What the human can type in the unlock dialog.
TypedTexts == {<<>>, <<"p">>, <<"q">>}

\* The password the human chooses when the keychain is created.
StorePasswords == {<<>>, <<"p">>}

None == <<"<absent>">>
Undefined == <<"<undefined>">>

(* ------------------------------------------------------------------ *)
(* String helpers (JavaScript String.prototype)                        *)
(* ------------------------------------------------------------------ *)

\* s.includes(sub)
Includes(s, sub) ==
  \E i \in 0..Len(s) :
    /\ i + Len(sub) <= Len(s)
    /\ SubSeq(s, i + 1, i + Len(sub)) = sub

\* s.startsWith(sub)
StartsWith(s, sub) ==
  /\ Len(sub) <= Len(s)
  /\ SubSeq(s, 1, Len(sub)) = sub

RECURSIVE TrimStart(_)
TrimStart(s) ==
  IF s # <<>> /\ Head(s) \in Whitespace THEN TrimStart(Tail(s)) ELSE s

RECURSIVE TrimEnd(_)
TrimEnd(s) ==
  IF s # <<>> /\ s[Len(s)] \in Whitespace
    THEN TrimEnd(SubSeq(s, 1, Len(s) - 1))
    ELSE s

\* s.trim(): strips whitespace at both ends
Trim(s) == TrimEnd(TrimStart(s))

\* args.join(' ')
RECURSIVE Join(_)
Join(args) ==
  IF args = <<>> THEN <<>>
  ELSE IF Len(args) = 1 THEN args[1]
  ELSE args[1] \o <<SP>> \o Join(Tail(args))

(* ------------------------------------------------------------------ *)
(* Paths, policy                                                       *)
(* ------------------------------------------------------------------ *)

keychainPath(service) ==
  <<"~/Library/Keychains/">> \o service \o <<"-protected.keychain-db">>

defaultIsProtected(account) == Includes(account, <<"production">>)

\* The override shown in the README: prod-* or live-* accounts.
customIsProtected(account) ==
  StartsWith(account, <<"prod-">>) \/ StartsWith(account, <<"live-">>)

Policies == {"default", "custom"}

\* (config.isProtected ?? defaultIsProtected)(account)
isProtected(policy, account) ==
  IF policy = "custom" THEN customIsProtected(account)
  ELSE defaultIsProtected(account)

(* ------------------------------------------------------------------ *)
(* Command lines and the messages of failed commands                   *)
(* ------------------------------------------------------------------ *)

Security == <<"/usr/bin/security">>

OsascriptArgv(service) ==
  << <<"/usr/bin/osascript">>, <<"-e">>,
     <<"set pw to text returned of (display dialog \"Enter password for ">>
       \o service
       \o <<" keychain\" default answer \"\" with hidden answer with title \"Silo\")">>,
     <<"-e">>, <<"return pw">> >>

CreateArgv(path) == << Security, <<"create-keychain">>, path >>
UnlockArgv(password, path) ==
  << Security, <<"unlock-keychain">>, <<"-p">>, password, path >>
SettingsArgv(path) ==
  << Security, <<"set-keychain-settings">>, <<"-t">>, <<"10">>, <<"-l">>, path >>
LockArgv(path) == << Security, <<"lock-keychain">>, path >>

\* scope = "protected": the keychain path is the last argument
ScopeArgs(scope, path) == IF scope = "protected" THEN << path >> ELSE << >>

AddArgv(service, account, value, scope, path) ==
  << Security, <<"add-generic-password">>, <<"-s">>, service, <<"-a">>, account,
     <<"-w">>, value, <<"-U">> >> \o ScopeArgs(scope, path)
FindArgv(service, account, scope, path) ==
  << Security, <<"find-generic-password">>, <<"-s">>, service, <<"-a">>, account,
     <<"-w">> >> \o ScopeArgs(scope, path)
DeleteArgv(service, account, scope, path) ==
  << Security, <<"delete-generic-password">>, <<"-s">>, service, <<"-a">>, account >>
    \o ScopeArgs(scope, path)

\* err.message of a failed execFileSync: the command line, then its stderr
CommandFailed(argv, stderr) ==
  <<"Command failed: ">> \o Join(argv)
    \o (IF stderr = <<>> THEN <<>> ELSE <<NL>> \o stderr)

\* what node captured of a command's stderr: nothing under
\* stdio: 'inherit', where it goes to the terminal
CapturedStderr(stdio, stderr) == IF stdio = "pipe" THEN stderr ELSE <<>>

StderrCanceled ==
  <<"execution error: ", "User canceled", ". (", "-128", ")", NL>>
StderrNoDialog ==
  <<"execution error: No user interaction allowed. (-1713)", NL>>
StderrNoKeychain ==
  <<"security: The specified keychain ", "could not be found", ".", NL>>
StderrBadPassword ==
  <<"security: The user name or passphrase you entered is not correct.", NL>>
StderrItemNotFound ==
  <<"security: The specified item ", "could not be found", " in the keychain.", NL>>
StderrNotAllowed ==
  <<"security: User interaction is not allowed.", NL>>
StderrCreateAborted ==
  <<"security: create-keychain: passwords do not match", NL>>
StderrDuplicate ==
  <<"security: A keychain with the same name already exists.", NL>>

(* ------------------------------------------------------------------ *)
(* State                                                               *)
(* ------------------------------------------------------------------ *)

VARIABLES
  protectedStore,  \* the per-service keychain: exists, locked, password,
                   \* autoLock, creds (account -> value or None)
  defaultStore,    \* the login keychain: account -> value or None
  call,            \* the public call in progress (or the last one finished)
  calls,           \* number of public calls begun so far
  start,           \* both stores as they were when the current call began
  prev,            \* the call before this one, when it was a successful store()
  peer             \* a second process using the same keychain

vars == <<protectedStore, defaultStore, call, calls, start, prev, peer>>

NoCreds == [a \in Accounts |-> None]

\* settings of a keychain nobody has called set-keychain-settings on
AutoLockUnset == [set |-> FALSE, timeout |-> 0, lockOnSleep |-> FALSE]
\* the settings the README describes: timeout=0, lock on sleep
AutoLockReadme == [set |-> TRUE, timeout |-> 0, lockOnSleep |-> TRUE]

\* set-keychain-settings -t 10 -l
AutoLockArmed == [set |-> TRUE, timeout |-> 10, lockOnSleep |-> TRUE]

NoStore ==
  [exists |-> FALSE, locked |-> FALSE, password |-> <<>>,
   autoLock |-> AutoLockUnset, creds |-> NoCreds]

\* The keychain as `silo init` leaves it: created, armed and locked.
InitializedStore(pw) ==
  [exists |-> TRUE, locked |-> TRUE, password |-> pw,
   autoLock |-> AutoLockArmed, creds |-> NoCreds]

(* ------------------------------------------------------------------ *)
(* The simulated credential stores: what each command does             *)
(* ------------------------------------------------------------------ *)

Outcome(ok, stdout, stderr, ks, ds) ==
  [ok |-> ok, stdout |-> stdout, stderr |-> stderr, ks |-> ks, ds |-> ds]

\* security create-keychain <path>  (the human types a new password)
SecCreate(ks, ds, pw, fault) ==
  IF ks.exists THEN Outcome(FALSE, <<>>, StderrDuplicate, ks, ds)
  ELSE IF fault THEN Outcome(FALSE, <<>>, StderrCreateAborted, ks, ds)
  ELSE Outcome(TRUE, <<>>, <<>>,
               [exists |-> TRUE, locked |-> FALSE, password |-> pw,
                autoLock |-> AutoLockUnset, creds |-> NoCreds], ds)

\* security unlock-keychain -p <password> <path>
SecUnlock(ks, ds, password) ==
  IF ~ks.exists THEN Outcome(FALSE, <<>>, StderrNoKeychain, ks, ds)
  ELSE IF password # ks.password
    THEN Outcome(FALSE, <<>>, StderrBadPassword, ks, ds)
  ELSE Outcome(TRUE, <<>>, <<>>, [ks EXCEPT !.locked = FALSE], ds)

\* security set-keychain-settings -t 10 -l <path>
SecSettings(ks, ds, fault) ==
  IF ~ks.exists THEN Outcome(FALSE, <<>>, StderrNoKeychain, ks, ds)
  ELSE IF fault THEN Outcome(FALSE, <<>>, StderrNotAllowed, ks, ds)
  ELSE Outcome(TRUE, <<>>, <<>>, [ks EXCEPT !.autoLock = AutoLockArmed], ds)

\* security lock-keychain <path>: an existing unlocked keychain is locked;
\* the command can report failure only when there is nothing to lock.
SecLock(ks, ds, fault) ==
  IF ~ks.exists THEN Outcome(FALSE, <<>>, StderrNoKeychain, ks, ds)
  ELSE IF ks.locked /\ fault THEN Outcome(FALSE, <<>>, StderrNotAllowed, ks, ds)
  ELSE Outcome(TRUE, <<>>, <<>>, [ks EXCEPT !.locked = TRUE], ds)

\* Why a credential command cannot run at all against `scope`, or <<>>.
ScopeError(scope, ks, fault) ==
  IF scope = "protected" /\ ~ks.exists THEN StderrNoKeychain
  ELSE IF scope = "protected" /\ ks.locked THEN StderrNotAllowed
  ELSE IF fault THEN StderrNotAllowed
  ELSE <<>>

CredsOf(scope, ks, ds) == IF scope = "protected" THEN ks.creds ELSE ds

WithCreds(scope, ks, ds, creds) ==
  IF scope = "protected"
    THEN Outcome(TRUE, <<>>, <<>>, [ks EXCEPT !.creds = creds], ds)
    ELSE Outcome(TRUE, <<>>, <<>>, ks, creds)

\* security add-generic-password -s .. -a .. -w .. -U [path]
SecAdd(scope, ks, ds, account, value, fault) ==
  IF ScopeError(scope, ks, fault) # <<>>
    THEN Outcome(FALSE, <<>>, ScopeError(scope, ks, fault), ks, ds)
    ELSE WithCreds(scope, ks, ds,
                   [CredsOf(scope, ks, ds) EXCEPT ![account] = value])

\* security find-generic-password -s .. -a .. -w [path]
SecFind(scope, ks, ds, account, fault) ==
  IF ScopeError(scope, ks, fault) # <<>>
    THEN Outcome(FALSE, <<>>, ScopeError(scope, ks, fault), ks, ds)
  ELSE IF CredsOf(scope, ks, ds)[account] = None
    THEN Outcome(FALSE, <<>>, StderrItemNotFound, ks, ds)
  ELSE Outcome(TRUE, CredsOf(scope, ks, ds)[account] \o <<NL>>, <<>>, ks, ds)

\* security delete-generic-password -s .. -a .. [path]
SecDelete(scope, ks, ds, account, fault) ==
  IF ScopeError(scope, ks, fault) # <<>>
    THEN Outcome(FALSE, <<>>, ScopeError(scope, ks, fault), ks, ds)
  ELSE IF CredsOf(scope, ks, ds)[account] = None
    THEN Outcome(FALSE, <<>>, StderrItemNotFound, ks, ds)
  ELSE WithCreds(scope, ks, ds,
                 [CredsOf(scope, ks, ds) EXCEPT ![account] = None])

(* ------------------------------------------------------------------ *)
(* Results and the catch blocks of keychain.ts                         *)
(* ------------------------------------------------------------------ *)

Ok(value) == [ok |-> TRUE, value |-> value, error |-> <<>>]
Err(error) == [ok |-> FALSE, value |-> <<>>, error |-> error]

CancelledError == <<"Keychain unlock cancelled by user">>
NotFoundError(account) == <<"No secret found for \"">> \o account \o <<"\"">>

\* catch block of createKeychain
createCatch(msg) == Err(<<"Failed to create keychain: ">> \o msg)

\* catch block of unlockKeychain without the test for a cancelled dialog
unlockCatchGeneric(msg) == Err(<<"Failed to unlock keychain: ">> \o msg)

\* catch block of unlockKeychain
unlockCatch(msg) ==
  IF Includes(msg, <<"User canceled">>) \/ Includes(msg, <<"-128">>)
    THEN Err(CancelledError)
    ELSE Err(<<"Failed to unlock keychain: ">> \o msg)

\* catch blocks of store / get / remove (after the best-effort lock)
storeCatch(account, msg) == Err(<<"Failed to store secret: ">> \o msg)

getCatch(account, msg) ==
  IF Includes(msg, <<"could not be found">>)
    THEN Err(NotFoundError(account))
    ELSE Err(<<"Keychain read failed: ">> \o msg)

removeCatch(account, msg) ==
  IF Includes(msg, <<"could not be found">>)
    THEN Err(NotFoundError(account))
    ELSE Err(<<"Failed to delete secret: ">> \o msg)

\* lock(path) with the lock-keychain call left out
lockSkipped(ks, ds, fault) == ks

\* lock(path): best-effort, the command's failure is swallowed
lock(ks, ds, fault) == SecLock(ks, ds, fault).ks

(* ------------------------------------------------------------------ *)
(* The call in progress                                                *)
(* ------------------------------------------------------------------ *)

ApiOps == {"createKeychain", "unlockKeychain", "activateKeychain",
           "store", "get", "remove"}
CliOps == {"cliInit", "cliStore"}

\* top: the public entry point; phase: which function of keychain.ts the
\* command line is in ("api" for a direct call of the library);
\* pc: the next execFileSync of that function.
IdleCall ==
  [top |-> "none", phase |-> "api", pc |-> "idle", policy |-> "default",
   account |-> <<>>, value |-> <<>>, protect |-> FALSE, password |-> <<>>,
   pending |-> Ok(Undefined), result |-> Ok(Undefined), log |-> <<>>,
   answer |-> "none", fresh |-> FALSE, exit |-> "none"]

NewCall(top, phase, pc, policy, account, value, protect) ==
  [IdleCall EXCEPT !.top = top, !.phase = phase, !.pc = pc, !.policy = policy,
                   !.account = account, !.value = value, !.protect = protect]

\* how a command ended: "ok", "notFound" (the item is not in the keychain)
\* or "error" (any other failure)
Signal(o) ==
  IF o.ok THEN "ok"
  ELSE IF o.stderr = StderrItemNotFound THEN "notFound"
  ELSE "error"

\* one execFileSync with outcome o, as recorded in the call's log
Logged(c, cmd, scope, o) ==
  [c EXCEPT !.log = Append(@, [cmd |-> cmd, scope |-> scope, ok |-> o.ok,
                               signal |-> Signal(o), phase |-> c.phase])]

\* the credential command of the function in progress
OpKind(c) ==
  IF c.top \in {"store", "cliStore"} THEN "add"
  ELSE IF c.top = "get" THEN "find"
  ELSE "delete"

\* the keychain path passed in both branches
ScopeAlwaysProtected(c) == "protected"

\* the keychain path never passed to the credential command
ScopeAlwaysDefault(c) == "default"

\* the keychain the credential command is directed at
Scope(c) == IF c.protect THEN "protected" ELSE "default"

\* a library call returns r to its caller
Done(c, r) == [c EXCEPT !.pc = "done", !.result = r]

\* cli: fail(msg) -> process.exit(1)
CliFail(c, r) == [c EXCEPT !.pc = "done", !.result = r, !.exit = "fail"]
\* cli: the command ran to its end
CliOk(c) == [c EXCEPT !.pc = "done", !.exit = "ok"]

\* cli `store`: the call store(config, account, value), config = {service}
EnterStore(c) ==
  [c EXCEPT !.phase = "body",
            !.protect = isProtected("default", c.account),
            !.pc = IF isProtected("default", c.account) THEN "prompt" ELSE "op"]

\* cli: activateKeychain(config)
EnterActivate(c) == [c EXCEPT !.phase = "post", !.pc = "actSettings"]

\* createKeychain / store / get / remove / activateKeychain returns r
FnReturn(c, r) ==
  IF c.top \in ApiOps THEN Done(c, r)
  ELSE IF c.phase = "pre"
    \* cli init: createKeychain; cli store: createKeychain or unlockKeychain
    THEN IF ~r.ok THEN CliFail(c, r)
         ELSE IF c.top = "cliInit" THEN EnterActivate([c EXCEPT !.result = r])
         ELSE EnterStore([c EXCEPT !.result = r])
  ELSE IF c.phase = "body"
    \* cli store: store() returned
    THEN IF ~r.ok THEN CliFail(c, r)
         ELSE IF c.fresh THEN EnterActivate([c EXCEPT !.result = r])
         ELSE CliOk([c EXCEPT !.result = r])
  ELSE CliOk(c)

\* store / get / remove without `if (!unlock.ok) return unlock`
UnlockReturnUnchecked(c, r) ==
  IF c.top = "unlockKeychain" \/ c.phase = "pre" THEN FnReturn(c, r)
  ELSE [c EXCEPT !.pc = "op"]

\* unlockKeychain returns r: to the caller of the library, to the command
\* line, or to store / get / remove (`if (!unlock.ok) return unlock`)
UnlockReturn(c, r) ==
  IF c.top = "unlockKeychain" \/ c.phase = "pre" THEN FnReturn(c, r)
  ELSE IF r.ok THEN [c EXCEPT !.pc = "op"]
  ELSE FnReturn(c, r)

Idle == call.pc \in {"idle", "done"}

\* a second process: its call, whether a call ever began while the other
\* process had one in progress, which process last locked or unlocked the
\* keychain (0: neither), and whether a credential command ever ran while
\* that was not the process issuing it
NoPeer == [call |-> IdleCall, overlap |-> FALSE, setter |-> 0, crossed |-> FALSE]

NoPrev == [stored |-> FALSE, policy |-> "default", account |-> <<>>, value |-> <<>>]

\* what the next call remembers of the call that just finished
Summary(c) ==
  IF c.pc = "done" /\ c.top = "store" /\ c.result.ok
    THEN [stored |-> TRUE, policy |-> c.policy, account |-> c.account,
          value |-> c.value]
    ELSE NoPrev

Snapshot == [ks |-> protectedStore, ds |-> defaultStore]

Path == keychainPath(Service)

(* ------------------------------------------------------------------ *)
(* The steps of keychain.ts: one execFileSync each.                    *)
(* Each yields the call, the protected store and the default store     *)
(* after the step.                                                      *)
(* ------------------------------------------------------------------ *)

After(c, ks, ds) == [c |-> c, ks |-> ks, ds |-> ds]

\* What the human does with the dialog.
Answers ==
  {[kind |-> "cancel", text |-> <<>>], [kind |-> "fail", text |-> <<>>]}
    \cup {[kind |-> "typed", text |-> t] : t \in TypedTexts}

\* osascript -e 'display dialog ...' -e 'return pw'
Osascript(ks, ds, answer) ==
  IF answer.kind = "typed"
    THEN Outcome(TRUE, answer.text \o <<NL>>, <<>>, ks, ds)
  ELSE IF answer.kind = "cancel"
    THEN Outcome(FALSE, <<>>, StderrCanceled, ks, ds)
  ELSE Outcome(FALSE, <<>>, StderrNoDialog, ks, ds)

\* unlockKeychain: the password dialog
PromptStep(c, ks, ds, answer) ==
  LET o == Osascript(ks, ds, answer)
      l == [Logged(c, "prompt", "dialog", o) EXCEPT !.answer = answer.kind]
  IN  IF o.ok
        THEN After([l EXCEPT !.password = Trim(o.stdout), !.pc = "unlock"], ks, ds)
        ELSE After(UnlockReturn(l, unlockCatch(
                     CommandFailed(OsascriptArgv(Service), o.stderr))), ks, ds)

\* unlockKeychain going on to set-keychain-settings although
\* unlock-keychain failed
UnlockStepFailureIgnored(c, ks, ds) ==
  LET o == SecUnlock(ks, ds, c.password)
  IN  After([Logged(c, "unlock", "protected", o) EXCEPT !.pc = "settings"],
            o.ks, o.ds)

\* unlockKeychain: security unlock-keychain -p password path
UnlockStep(c, ks, ds) ==
  LET o == SecUnlock(ks, ds, c.password)
      l == Logged(c, "unlock", "protected", o)
  IN  IF o.ok
        THEN After([l EXCEPT !.pc = "settings"], o.ks, o.ds)
        ELSE After(UnlockReturn(l, unlockCatch(
                     CommandFailed(UnlockArgv(c.password, Path), o.stderr))),
                   o.ks, o.ds)

\* unlockKeychain with the failure of set-keychain-settings swallowed, as
\* activateKeychain swallows it
SettingsStepSwallowed(c, ks, ds, fault) ==
  LET o == SecSettings(ks, ds, fault)
  IN  After(UnlockReturn(Logged(c, "settings", "protected", o), Ok(Undefined)),
            o.ks, o.ds)

\* unlockKeychain: security set-keychain-settings -t 10 -l path
SettingsStep(c, ks, ds, fault) ==
  LET o == SecSettings(ks, ds, fault)
      l == Logged(c, "settings", "protected", o)
  IN  IF o.ok
        THEN After(UnlockReturn(l, Ok(Undefined)), o.ks, o.ds)
        ELSE After(UnlockReturn(l, unlockCatch(
                     CommandFailed(SettingsArgv(Path), o.stderr))), o.ks, o.ds)

\* a get that falls back on the other store when the one it asked first
\* has no such credential
CredentialCommandBothStores(c, ks, ds, fault) ==
  LET other == IF Scope(c) = "protected" THEN "default" ELSE "protected"
      o == SecFind(Scope(c), ks, ds, c.account, fault)
  IN  IF OpKind(c) = "add"
        THEN SecAdd(Scope(c), ks, ds, c.account, c.value, fault)
      ELSE IF OpKind(c) = "find"
        THEN IF o.ok THEN o ELSE SecFind(other, ks, ds, c.account, fault)
      ELSE SecDelete(Scope(c), ks, ds, c.account, fault)

\* the add / find / delete command of store / get / remove
CredentialCommand(c, ks, ds, fault) ==
  IF OpKind(c) = "add"
    THEN SecAdd(Scope(c), ks, ds, c.account, c.value, fault)
  ELSE IF OpKind(c) = "find"
    THEN SecFind(Scope(c), ks, ds, c.account, fault)
  ELSE SecDelete(Scope(c), ks, ds, c.account, fault)

CredentialArgv(c) ==
  IF OpKind(c) = "add"
    THEN AddArgv(Service, c.account, c.value, Scope(c), Path)
  ELSE IF OpKind(c) = "find"
    THEN FindArgv(Service, c.account, Scope(c), Path)
  ELSE DeleteArgv(Service, c.account, Scope(c), Path)

\* what store / get / remove return when the command succeeded
OpSuccess(c, stdout) ==
  IF OpKind(c) = "find" THEN Ok(Trim(stdout)) ELSE Ok(Undefined)

\* what store / get / remove return from their catch block
OpCatch(c, msg) ==
  IF OpKind(c) = "add" THEN storeCatch(c.account, msg)
  ELSE IF OpKind(c) = "find" THEN getCatch(c.account, msg)
  ELSE removeCatch(c.account, msg)

\* store / get / remove: the credential command; a protected call goes
\* on to lock(path), in the try block or in the catch block
CredentialStep(c, ks, ds, fault) ==
  LET o == CredentialCommand(c, ks, ds, fault)
      l == Logged(c, OpKind(c), Scope(c), o)
      r == IF o.ok THEN OpSuccess(c, o.stdout)
           ELSE OpCatch(c, CommandFailed(CredentialArgv(c), o.stderr))
  IN  IF c.protect
        THEN After([l EXCEPT !.pending = r,
                             !.pc = IF o.ok THEN "lock" ELSE "catchLock"],
                   o.ks, o.ds)
        ELSE After(FnReturn(l, r), o.ks, o.ds)

\* lock(path) without its own try / catch: a failing lock-keychain throws
\* into the catch block of store / get / remove
LockStepThrowing(c, ks, ds, fault) ==
  LET o == SecLock(ks, ds, fault)
      l == Logged(c, "lock", "protected", o)
  IN  After(FnReturn(l, IF o.ok THEN c.pending
                        ELSE OpCatch(c, CommandFailed(LockArgv(Path), o.stderr))),
            o.ks, ds)

\* store / get / remove: lock(path), then return
LockStep(c, ks, ds, fault) ==
  After(FnReturn(Logged(c, "lock", "protected", SecLock(ks, ds, fault)),
                 c.pending),
        lock(ks, ds, fault), ds)

\* createKeychain without the existsSync(path) test
CreateStepNoExistsTest(c, ks, ds, pw, fault) ==
  LET o == SecCreate(ks, ds, pw, fault)
      l == Logged(c, "create", "protected", o)
  IN  IF o.ok
        THEN After(FnReturn(l, Ok(Undefined)), o.ks, o.ds)
        ELSE After(FnReturn(l, createCatch(
                     CommandFailed(CreateArgv(Path),
                                       CapturedStderr("inherit", o.stderr)))), o.ks, o.ds)

\* createKeychain: existsSync(path), then security create-keychain path
CreateStep(c, ks, ds, pw, fault) ==
  IF ks.exists THEN After(FnReturn(c, Ok(Undefined)), ks, ds)
  ELSE LET o == SecCreate(ks, ds, pw, fault)
           l == Logged(c, "create", "protected", o)
       IN  IF o.ok
             THEN After(FnReturn(l, Ok(Undefined)), o.ks, o.ds)
             ELSE After(FnReturn(l, createCatch(
                          CommandFailed(CreateArgv(Path),
                                       CapturedStderr("inherit", o.stderr)))), o.ks, o.ds)

\* activateKeychain: set-keychain-settings, its failure swallowed
ActivateSettingsStep(c, ks, ds, fault) ==
  LET o == SecSettings(ks, ds, fault)
  IN  After([Logged(c, "settings", "protected", o) EXCEPT !.pc = "actLock"],
            o.ks, o.ds)

\* activateKeychain: lock(path)
ActivateLockStep(c, ks, ds, fault) ==
  After(FnReturn(Logged(c, "lock", "protected", SecLock(ks, ds, fault)),
                 Ok(Undefined)),
        lock(ks, ds, fault), ds)

(* ------------------------------------------------------------------ *)
(* Actions                                                             *)
(* ------------------------------------------------------------------ *)

Apply(n) ==
  /\ call' = n.c
  /\ protectedStore' = n.ks
  /\ defaultStore' = n.ds

\* a public call begins and runs to its first command
Enter(n) ==
  /\ Idle
  /\ calls < MaxCalls
  /\ calls' = calls + 1
  /\ start' = Snapshot
  /\ prev' = Summary(call)
  /\ Apply(n)
  /\ UNCHANGED peer

\* a call in progress runs its next command
Continue(n) ==
  /\ Apply(n)
  /\ UNCHANGED <<calls, start, prev, peer>>

\* the first step of store / get / remove
FirstStep(c) ==
  IF c.protect
    THEN \E answer \in Answers :
           Enter(PromptStep(c, protectedStore, defaultStore, answer))
    ELSE \E fault \in BOOLEAN :
           Enter(CredentialStep(c, protectedStore, defaultStore, fault))

createKeychain ==
  \E pw \in StorePasswords, fault \in BOOLEAN :
    Enter(CreateStep(
      NewCall("createKeychain", "api", "create", "default", <<>>, <<>>, FALSE),
      protectedStore, defaultStore, pw, fault))

unlockKeychain ==
  \E answer \in Answers :
    Enter(PromptStep(
      NewCall("unlockKeychain", "api", "prompt", "default", <<>>, <<>>, FALSE),
      protectedStore, defaultStore, answer))

activateKeychain ==
  \E fault \in BOOLEAN :
    Enter(ActivateSettingsStep(
      NewCall("activateKeychain", "api", "actSettings", "default", <<>>, <<>>, FALSE),
      protectedStore, defaultStore, fault))

store ==
  \E policy \in Policies, account \in Accounts, value \in Values :
    FirstStep(NewCall("store", "api", "start", policy, account, value,
                      isProtected(policy, account)))

get ==
  \E policy \in Policies, account \in Accounts :
    FirstStep(NewCall("get", "api", "start", policy, account, <<>>,
                      isProtected(policy, account)))

remove ==
  \E policy \in Policies, account \in Accounts :
    FirstStep(NewCall("remove", "api", "start", policy, account, <<>>,
                      isProtected(policy, account)))

\* silo init <service>
cliInit ==
  LET c == NewCall("cliInit", "pre", "create", "default", <<>>, <<>>, FALSE)
  IN  IF protectedStore.exists
        THEN Enter(After(CliOk(c), protectedStore, defaultStore))
        ELSE \E pw \in StorePasswords, fault \in BOOLEAN :
               Enter(CreateStep(c, protectedStore, defaultStore, pw, fault))

\* silo store <service> <account> <value>
cliStore ==
  \E account \in Accounts, value \in Values :
    LET prot == Includes(account, <<"production">>)
        c == [NewCall("cliStore", "pre", "start", "default", account, value, prot)
                EXCEPT !.fresh = prot /\ ~protectedStore.exists]
    IN  IF ~prot THEN FirstStep(EnterStore(c))
        ELSE IF ~protectedStore.exists
          THEN \E pw \in StorePasswords, fault \in BOOLEAN :
                 Enter(CreateStep(c, protectedStore, defaultStore, pw, fault))
          ELSE \E answer \in Answers :
                 Enter(PromptStep(c, protectedStore, defaultStore, answer))

\* the dialog of an unlockKeychain that is not the call's first command
Prompt ==
  /\ call.pc = "prompt"
  /\ \E answer \in Answers :
       Continue(PromptStep(call, protectedStore, defaultStore, answer))

UnlockStore ==
  /\ call.pc = "unlock"
  /\ Continue(UnlockStep(call, protectedStore, defaultStore))

SetAutoLock ==
  /\ call.pc = "settings"
  /\ \E fault \in BOOLEAN :
       Continue(SettingsStep(call, protectedStore, defaultStore, fault))

CredentialOp ==
  /\ call.pc = "op"
  /\ \E fault \in BOOLEAN :
       Continue(CredentialStep(call, protectedStore, defaultStore, fault))

LockStore ==
  /\ call.pc \in {"lock", "catchLock"}
  /\ \E fault \in BOOLEAN :
       Continue(LockStep(call, protectedStore, defaultStore, fault))

ActivateSettings ==
  /\ call.pc = "actSettings"
  /\ \E fault \in BOOLEAN :
       Continue(ActivateSettingsStep(call, protectedStore, defaultStore, fault))

ActivateLock ==
  /\ call.pc = "actLock"
  /\ \E fault \in BOOLEAN :
       Continue(ActivateLockStep(call, protectedStore, defaultStore, fault))

\* The keychain's own idle timer (or system sleep) locks an armed,
\* unlocked keychain; the operating system does this, not silo.
AutoLockFires ==
  /\ protectedStore.exists
  /\ ~protectedStore.locked
  /\ protectedStore.autoLock.set
  /\ protectedStore' = [protectedStore EXCEPT !.locked = TRUE]
  /\ UNCHANGED <<defaultStore, call, calls, start, prev, peer>>

Init ==
  /\ protectedStore \in {NoStore} \cup {InitializedStore(pw) : pw \in StorePasswords}
  /\ defaultStore = NoCreds
  /\ call = IdleCall
  /\ calls = 0
  /\ start = Snapshot
  /\ prev = NoPrev
  /\ peer = NoPeer

Next ==
  \/ createKeychain
  \/ unlockKeychain
  \/ activateKeychain
  \/ store
  \/ get
  \/ remove
  \/ cliInit
  \/ cliStore
  \/ Prompt
  \/ UnlockStore
  \/ SetAutoLock
  \/ CredentialOp
  \/ LockStore
  \/ ActivateSettings
  \/ ActivateLock
  \/ AutoLockFires

Spec == Init /\ [][Next]_vars

(* ------------------------------------------------------------------ *)
(* Two processes using the same service's keychain.                    *)
(* Each runs store / get / remove on a protected account; every        *)
(* execFileSync of one may fall between two of the other, as nothing   *)
(* in keychain.ts serializes processes.                                 *)
(* ------------------------------------------------------------------ *)

Procs == {1, 2}

\* the call of process p, and of the other one
Self(p) == IF p = 1 THEN call ELSE peer.call
Other(p) == IF p = 1 THEN peer.call ELSE call

InProgress(c) == c.pc \notin {"idle", "done"}

\* the command a step appended to the log was a lock-keychain or an
\* unlock-keychain that succeeded
SetLockState(before, after) ==
  /\ Len(after.log) > Len(before.log)
  /\ after.log[Len(after.log)].cmd \in {"unlock", "lock"}
  /\ after.log[Len(after.log)].ok

\* process p takes the step n; begins tells whether it is a call's first
TwoApply(p, n, begins) ==
  /\ protectedStore' = n.ks
  /\ defaultStore' = n.ds
  /\ call' = IF p = 1 THEN n.c ELSE call
  /\ peer' = [call |-> IF p = 2 THEN n.c ELSE peer.call,
              overlap |-> peer.overlap \/ (begins /\ InProgress(Other(p))),
              setter |-> IF SetLockState(Self(p), n.c) /\ ~begins
                           THEN p ELSE peer.setter,
              crossed |-> peer.crossed
                            \/ (Self(p).pc = "op" /\ peer.setter # p)]
  /\ calls' = IF begins THEN calls + 1 ELSE calls
  /\ start' = IF begins /\ p = 1 THEN Snapshot ELSE start
  /\ UNCHANGED prev

\* process p calls store / get / remove on the protected account
TwoBegin(p) ==
  /\ ~InProgress(Self(p))
  /\ calls < MaxCalls
  /\ \E top \in {"store", "get", "remove"}, answer \in Answers :
       TwoApply(p, PromptStep(
                     NewCall(top, "api", "start", "default", AcctProd,
                             IF top = "store" THEN <<"v">> ELSE <<>>, TRUE),
                     protectedStore, defaultStore, answer), TRUE)

TwoUnlock(p) ==
  /\ Self(p).pc = "unlock"
  /\ TwoApply(p, UnlockStep(Self(p), protectedStore, defaultStore), FALSE)

TwoSettings(p) ==
  /\ Self(p).pc = "settings"
  /\ \E fault \in BOOLEAN :
       TwoApply(p, SettingsStep(Self(p), protectedStore, defaultStore, fault),
                FALSE)

TwoCredential(p) ==
  /\ Self(p).pc = "op"
  /\ \E fault \in BOOLEAN :
       TwoApply(p, CredentialStep(Self(p), protectedStore, defaultStore, fault),
                FALSE)

TwoLock(p) ==
  /\ Self(p).pc \in {"lock", "catchLock"}
  /\ \E fault \in BOOLEAN :
       TwoApply(p, LockStep(Self(p), protectedStore, defaultStore, fault), FALSE)

InitTwo ==
  /\ protectedStore \in {InitializedStore(pw) : pw \in StorePasswords}
  /\ defaultStore = NoCreds
  /\ call = IdleCall
  /\ calls = 0
  /\ start = Snapshot
  /\ prev = NoPrev
  /\ peer = NoPeer

NextTwo ==
  \/ \E p \in Procs : TwoBegin(p)
  \/ \E p \in Procs : TwoUnlock(p)
  \/ \E p \in Procs : TwoSettings(p)
  \/ \E p \in Procs : TwoCredential(p)
  \/ \E p \in Procs : TwoLock(p)
  \/ AutoLockFires

SpecTwo == InitTwo /\ [][NextTwo]_vars

(* ------------------------------------------------------------------ *)
(* Vocabulary of the properties                                        *)
(* ------------------------------------------------------------------ *)

\* the error taxonomy, read off a returned result
Kind(r) ==
  IF r.ok THEN "Success"
  ELSE IF r.error = CancelledError THEN "Cancelled"
  ELSE IF StartsWith(r.error, <<"No secret found for \"">>) THEN "NotFound"
  ELSE IF StartsWith(r.error, <<"Failed to unlock keychain: ">>) THEN "UnlockFailed"
  ELSE IF StartsWith(r.error, <<"Failed to create keychain: ">>) THEN "StoreCreationFailed"
  ELSE "OperationFailed"

\* the commands of kind cmd the current call has issued
Issued(cmd) == {i \in 1..Len(call.log) : call.log[i].cmd = cmd}

CredentialCmds == {"add", "find", "delete"}

\* a direct store / get / remove call has returned
Returned == call.pc = "done" /\ call.top \in {"store", "get", "remove"}

\* ... on a protected account
ProtectedReturned == Returned /\ call.protect

(* ------------------------------------------------------------------ *)
(* C1                                                                  *)
(* ------------------------------------------------------------------ *)

\* C1: when a store, get or remove call on a protected account has returned
\* success, not-found or an operation failure, the protected store is locked,
\* whether it was locked or unlocked when the call began.
C1_LockedAfter ==
  (ProtectedReturned
     /\ Kind(call.result) \in {"Success", "NotFound", "OperationFailed"})
    => protectedStore.locked

\* a protected call that began on an unlocked store and ended in an
\* operation failure
C1_Witness ==
  /\ ProtectedReturned
  /\ Kind(call.result) = "OperationFailed"
  /\ ~start.ks.locked
  /\ start.ks.exists
  /\ protectedStore.locked

(* ------------------------------------------------------------------ *)
(* C2                                                                  *)
(* ------------------------------------------------------------------ *)

\* C2: when the password dialog of a protected store, get or remove call
\* is cancelled, the re-lock is not skipped: the call ends with the
\* protected store locked, also when the store was unlocked when the call
\* began.
C2_RelockOnCancel ==
  (ProtectedReturned /\ call.answer = "cancel" /\ start.ks.exists)
    => protectedStore.locked

(* ------------------------------------------------------------------ *)
(* C3                                                                  *)
(* ------------------------------------------------------------------ *)

\* C3: when the password dialog is cancelled, store, get and remove on a
\* protected account return the Cancelled error (not UnlockFailed, NotFound
\* or OperationFailed) and the credentials of the protected store and of
\* the default store are what they were when the call began.
C3_CancelledOutcome ==
  (ProtectedReturned /\ call.answer = "cancel")
    => /\ call.result = Err(CancelledError)
       /\ Kind(call.result) = "Cancelled"
       /\ protectedStore.creds = start.ks.creds
       /\ defaultStore = start.ds

\* a cancelled remove of a credential that the protected store holds
C3_Witness ==
  /\ ProtectedReturned
  /\ call.top = "remove"
  /\ call.answer = "cancel"
  /\ start.ks.creds[call.account] # None
  /\ Kind(call.result) = "Cancelled"

(* ------------------------------------------------------------------ *)
(* C4                                                                  *)
(* ------------------------------------------------------------------ *)

\* C4: when the dialog returns an empty password to a store, get or remove
\* call on a protected account, the call is treated as cancelled: unlock-keychain is not run, the result is Cancelled and no
\* credential command runs, also when the store's password is empty.
C4_EmptyPasswordIsCancel ==
  (ProtectedReturned /\ start.ks.exists
     /\ call.answer = "typed" /\ call.password = <<>>)
    => /\ Issued("unlock") = {}
       /\ Kind(call.result) = "Cancelled"
       /\ \A cmd \in CredentialCmds : Issued(cmd) = {}

(* ------------------------------------------------------------------ *)
(* C5                                                                  *)
(* ------------------------------------------------------------------ *)

\* a secret that is not blank (every string includes the empty string)
Visible(secret) == Trim(secret) # <<>>

\* C5: no error returned by store, get, remove, unlockKeychain or
\* createKeychain contains the value passed to store or the password typed
\* in the dialog.
C5_NoSecretInError ==
  (call.pc = "done" /\ call.top \in ApiOps /\ ~call.result.ok)
    => /\ (call.top = "store" /\ Visible(call.value))
            => ~Includes(call.result.error, call.value)
       /\ (call.answer = "typed" /\ Visible(call.password))
            => ~Includes(call.result.error, call.password)

(* ------------------------------------------------------------------ *)
(* C6                                                                  *)
(* ------------------------------------------------------------------ *)

\* C6: a store, get or remove call on an account the policy does not
\* protect issues exactly one command, its credential command against the
\* default store (no dialog, no unlock, no settings, no lock), and leaves
\* the protected store (existence, lock state, settings, credentials) as
\* it was.
C6_UnprotectedFrame ==
  [][ (calls' = calls + 1 /\ call'.top \in {"store", "get", "remove"}
         /\ ~isProtected(call'.policy, call'.account))
        => /\ call'.pc = "done"
           /\ Len(call'.log) = 1
           /\ call'.log[1].cmd = OpKind(call')
           /\ call'.log[1].scope = "default"
           /\ protectedStore' = protectedStore ]_vars

\* an unprotected store has written the default store while the protected
\* store exists
C6_Witness ==
  /\ Returned
  /\ call.top = "store"
  /\ ~isProtected(call.policy, call.account)
  /\ call.result.ok
  /\ defaultStore[call.account] = call.value
  /\ start.ks.exists

(* ------------------------------------------------------------------ *)
(* C7                                                                  *)
(* ------------------------------------------------------------------ *)

\* C7: a get that directly follows a successful store of value v to the
\* same account under the same policy, when it succeeds, returns exactly v.
C7_RoundTrip ==
  (Returned /\ call.top = "get" /\ call.result.ok
     /\ prev.stored /\ prev.account = call.account /\ prev.policy = call.policy)
    => call.result.value = prev.value

(* ------------------------------------------------------------------ *)
(* C8                                                                  *)
(* ------------------------------------------------------------------ *)

\* C8: when find or delete signals not-found, get and remove return the
\* NotFound error carrying the account name; when find or delete fails in
\* any other way, they do not return NotFound.
C8_NotFoundMapping ==
  (Returned /\ call.top \in {"get", "remove"})
    => \A i \in Issued("find") \cup Issued("delete") :
         /\ call.log[i].signal = "notFound"
              => call.result = Err(NotFoundError(call.account))
         /\ call.log[i].signal = "error"
              => Kind(call.result) # "NotFound"

(* ------------------------------------------------------------------ *)
(* C9                                                                  *)
(* ------------------------------------------------------------------ *)

\* C9: createKeychain on a store that already exists returns success,
\* issues no create-keychain and leaves the store's credentials, lock state
\* and auto-lock settings (and the default store) as they were; so a second
\* createKeychain returns no error and destroys no credential.
C9_CreateIdempotent ==
  [][ (calls' = calls + 1 /\ call'.top = "createKeychain"
         /\ protectedStore.exists)
        => /\ call'.pc = "done"
           /\ call'.result = Ok(Undefined)
           /\ call'.log = <<>>
           /\ protectedStore' = protectedStore
           /\ defaultStore' = defaultStore ]_vars

\* createKeychain has returned on a store that held a credential
C9_Witness ==
  /\ call.pc = "done"
  /\ call.top = "createKeychain"
  /\ start.ks.exists
  /\ \E a \in Accounts : start.ks.creds[a] # None /\ protectedStore.creds[a] # None
  /\ call.result.ok

(* ------------------------------------------------------------------ *)
(* C10                                                                 *)
(* ------------------------------------------------------------------ *)

\* C10: when `silo store` of a protected account on a fresh service has run
\* to its end (create, store, activate), the only prompt was the one of
\* create-keychain: no unlock dialog was shown; and the store is locked.
C10_FreshFlowOnePrompt ==
  (call.pc = "done" /\ call.top = "cliStore" /\ call.fresh /\ call.exit = "ok")
    => /\ Cardinality(Issued("create")) = 1
       /\ Issued("prompt") = {}
       /\ protectedStore.locked

(* ------------------------------------------------------------------ *)
(* C11                                                                 *)
(* ------------------------------------------------------------------ *)

\* C11: in every state where the protected store holds a credential, its
\* auto-lock settings are a positive idle timeout with lock-on-sleep
\* (not the settings it was created with, not "never").
C11_ArmedOnceWritten ==
  (\E a \in Accounts : protectedStore.creds[a] # None)
    => /\ protectedStore.autoLock.set
       /\ protectedStore.autoLock.timeout > 0
       /\ protectedStore.autoLock.lockOnSleep

\* the first protected write into a store that createKeychain had just
\* created, with the settings it was created with
C11_Witness ==
  /\ ProtectedReturned
  /\ call.top = "store"
  /\ call.result.ok
  /\ start.ks.exists
  /\ ~start.ks.autoLock.set
  /\ protectedStore.creds[call.account] = call.value

(* ------------------------------------------------------------------ *)
(* C12                                                                 *)
(* ------------------------------------------------------------------ *)

\* a get or remove has returned, the call before it was a successful store
\* of the same account, and the two calls' policies classify the account
\* differently
C12_Reclassified ==
  /\ call.pc = "done"
  /\ call.top \in {"get", "remove"}
  /\ prev.stored
  /\ prev.account = call.account
  /\ isProtected(prev.policy, call.account) # call.protect

\* the store the current call's policy implies, and the other one
C12_Current == IF call.protect THEN "protected" ELSE "default"
C12_Other == IF call.protect THEN "default" ELSE "protected"

\* every credential command of the call went to the store its own policy
\* implies, and the other store's credentials are as they were
C12_OtherStoreUntouched ==
  /\ \A i \in 1..Len(call.log) :
       call.log[i].cmd \in CredentialCmds => call.log[i].scope = C12_Current
  /\ CredsOf(C12_Other, protectedStore, defaultStore)
       = CredsOf(C12_Other, start.ks, start.ds)

C12_Ops == {i \in 1..Len(call.log) : call.log[i].cmd \in CredentialCmds}

C13_OnePromptThenValue ==
  /\ ProtectedReturned => Cardinality(Issued("prompt")) = 1
  /\ (/\ ProtectedReturned
      /\ call.top = "get"
      /\ call.result.ok
      /\ prev.stored
      /\ prev.account = call.account
      /\ isProtected(prev.policy, prev.account))
       => /\ call.result.value = prev.value
          /\ protectedStore.locked

(* ------------------------------------------------------------------ *)
(* C14                                                                 *)
(* ------------------------------------------------------------------ *)

\* C14: within a call, the command right after a successful unlock-keychain
\* is set-keychain-settings, and every add / find / delete on the protected
\* store comes right after a set-keychain-settings that succeeded, itself
\* right after a successful unlock-keychain.
C14_SettingsBeforeCredential ==
  /\ \A i \in Issued("unlock") :
       call.log[i].ok
         => IF i < Len(call.log)
              THEN call.log[i + 1].cmd = "settings"
              ELSE call.pc = "settings"
  /\ \A j \in 1..Len(call.log) :
       (call.log[j].cmd \in CredentialCmds /\ call.log[j].scope = "protected")
         => /\ j > 2
            /\ call.log[j - 1].cmd = "settings" /\ call.log[j - 1].ok
            /\ call.log[j - 2].cmd = "unlock" /\ call.log[j - 2].ok

\* a protected call on a store that still had the settings it was created
\* with has issued its credential command
C14_Witness ==
  /\ call.protect
  /\ call.pc \in {"lock", "catchLock"}
  /\ \E j \in 1..Len(call.log) : call.log[j].cmd \in CredentialCmds
  /\ ~start.ks.autoLock.set
  /\ protectedStore.autoLock = AutoLockArmed

(* ------------------------------------------------------------------ *)
(* C15                                                                 *)
(* ------------------------------------------------------------------ *)

\* the commands issued by the current store / get / remove call itself
\* (for the command line's `store`: by the store() call it makes)
C15_OwnCmds ==
  {i \in 1..Len(call.log) : call.log[i].phase \in {"api", "body"}}

\* ... those of them that are credential commands on the protected store
C15_ProtectedOps ==
  {j \in C15_OwnCmds : /\ call.log[j].cmd \in CredentialCmds
                       /\ call.log[j].scope = "protected"}

\* C15: a store, get or remove call issues at most one credential command
\* on the protected store, after a successful unlock-keychain of the same
\* call and before that call's lock-keychain, which follows once the call
\* has moved on; when the dialog, the unlock or the settings command of
\* the call failed, it issues none.
C15_OneGuardedOperation ==
  call.top \in {"store", "get", "remove", "cliStore"}
    => /\ Cardinality(C15_ProtectedOps) <= 1
       /\ \A j \in C15_ProtectedOps :
            /\ \E i \in C15_OwnCmds :
                 i < j /\ call.log[i].cmd = "unlock" /\ call.log[i].ok
            /\ \A k \in C15_OwnCmds : call.log[k].cmd = "lock" => k > j
            /\ call.pc \notin {"lock", "catchLock"}
                 => \E k \in C15_OwnCmds : k > j /\ call.log[k].cmd = "lock"
       /\ (\E i \in C15_OwnCmds :
             /\ call.log[i].cmd \in {"prompt", "unlock", "settings"}
             /\ ~call.log[i].ok)
            => C15_ProtectedOps = {}

\* a protected call has returned after unlock, one credential command and
\* lock, in that order
C15_Witness ==
  /\ ProtectedReturned
  /\ Cardinality(C15_ProtectedOps) = 1
  /\ \E i, j, k \in C15_OwnCmds :
       /\ i < j /\ j < k
       /\ call.log[i].cmd = "unlock" /\ call.log[i].ok
       /\ j \in C15_ProtectedOps
       /\ call.log[k].cmd = "lock"

(* ------------------------------------------------------------------ *)
(* C16                                                                 *)
(* ------------------------------------------------------------------ *)

\* C16: the step that runs the final lock-keychain of a store, get or
\* remove call returns the result the call had before it, whether the
\* lock-keychain command succeeded or failed.
C16_LockFailureSwallowed ==
  [][(call.pc \in {"lock", "catchLock"} /\ call'.pc # call.pc)
       => /\ call'.result = call.pending
          /\ Len(call'.log) = Len(call.log) + 1
          /\ call'.log[Len(call'.log)].cmd = "lock"]_vars

\* a protected call returned success although its lock-keychain failed
C16_Witness ==
  /\ ProtectedReturned
  /\ call.result.ok
  /\ \E k \in Issued("lock") : ~call.log[k].ok

(* ------------------------------------------------------------------ *)
(* C17                                                                 *)
(* ------------------------------------------------------------------ *)

\* C17: with two processes on the same keychain, a credential command runs
\* while the keychain's lock state was last set by the other process only
\* if a call began while the other process had one in progress; calls that
\* follow one another never get there (and overlapping ones do: the
\* witness).
C17_CrossedOnlyWhenOverlapping == peer.crossed => peer.overlap

\* process 2 locked the keychain between the unlock-keychain and the
\* credential command of process 1, whose command then failed
C17_Witness ==
  /\ peer.crossed
  /\ peer.overlap
  /\ peer.setter = 2
  /\ protectedStore.locked
  /\ call.pc = "catchLock"
  /\ \E i \in Issued("unlock") : call.log[i].ok
  /\ peer.call.pc = "done"
  /\ \E k \in 1..Len(peer.call.log) : peer.call.log[k].cmd = "lock"

(* ------------------------------------------------------------------ *)
(* C18                                                                 *)
(* ------------------------------------------------------------------ *)

\* C18: when a store, get or remove call, or the command line's `store`,
\* has returned, every successful unlock-keychain it issued was followed by
\* a lock-keychain of its own, and a store that was locked when the call
\* began and that the call unlocked is locked.
C18_UnlockAlwaysRelocked ==
  (call.pc = "done" /\ call.top \in {"store", "get", "remove", "cliStore"})
    => \A i \in Issued("unlock") :
         call.log[i].ok
           => /\ \E k \in Issued("lock") : k > i
              /\ start.ks.locked => protectedStore.locked

(* ------------------------------------------------------------------ *)
(* C19                                                                 *)
(* ------------------------------------------------------------------ *)

\* C19: no step of a store, get or remove call on a protected account
\* changes the default store or directs a credential command at it; no step
\* of such a call on an unprotected account changes the credentials of the
\* protected store or directs a credential command at it; and the value a
\* successful get of a protected account returns is the (trimmed) value the
\* protected store holds for it.
C19_StoresIsolated ==
  [][call'.top \in {"store", "get", "remove"}
       => /\ call'.protect => defaultStore' = defaultStore
          /\ ~call'.protect => protectedStore'.creds = protectedStore.creds
          /\ \A i \in 1..Len(call'.log) :
               call'.log[i].cmd \in CredentialCmds
                 => call'.log[i].scope
                      = IF call'.protect THEN "protected" ELSE "default"
          /\ (call'.pc = "done" /\ call'.top = "get" /\ call'.protect
                /\ call'.result.ok)
               => /\ protectedStore'.creds[call'.account] # None
                  /\ call'.result.value
                       = Trim(protectedStore'.creds[call'.account])]_vars

\* a get of a protected account returned the value the protected store
\* holds, with the default store holding nothing for the account and left
\* as it was
C19_Witness ==
  /\ ProtectedReturned
  /\ call.top = "get"
  /\ call.result.ok
  /\ call.result.value = Trim(protectedStore.creds[call.account])
  /\ defaultStore[call.account] = None
  /\ defaultStore = start.ds
====
